---- MODULE Spec2Model ----
(***************************************************************************)
(* The escape state machine (EscapeProtocol) and the resource ledger       *)
(* (UniverseState) of riw2, as a state machine.  One action per method;    *)
(* every action records the call and its return value in `last`.           *)
(***************************************************************************)
EXTENDS Integers, Sequences, FiniteSets, TLC

\* ------------------------------------------------------------------ bounds
\* Number of attempts start_escape_attempt may create in one run.
MaxAttempts == 2
\* Largest amount passed to consume_source_energy, and largest allocation,
\* in the ledger-only specification.
MaxAmount == 8
MaxEnergy == 10

\* --------------------------------------------------------- optional values
\* Python's None and a set value, as sequences of length 0 and 1.
None == <<>>
Some(v) == <<v>>

\* ------------------------------------------------------------- enumerations
\* EscapeStatus: member name |-> value (the tag written by to_dict).
EscapeStatus ==
  [ NOT_STARTED          |-> "not_started",
    FRAGMENTS_COLLECTING |-> "collecting_fragments",
    KEY_DECRYPTING       |-> "decrypting_key",
    GATEWAY_OPENING      |-> "opening_gateway",
    PRINTING             |-> "printing_to_real_universe",
    ESCAPED              |-> "escaped",
    FAILED               |-> "failed" ]

\* SourceEnergyLevel: member name |-> value.
SourceEnergyLevel ==
  [ E_COMMON       |-> "E_Common",
    D_RARE         |-> "D_Rare",
    C_PRECIOUS     |-> "C_Precious",
    B_LEGENDARY    |-> "B_Legendary",
    A_SACRED       |-> "A_Sacred",
    OMEGA_ABSOLUTE |-> "Omega_Absolute" ]

\* ------------------------------------------------------------------ inputs
\* The entity ids and names the simulation driver passes in.
Entities == {"E1", "E2"}
EntityName(e) == IF e = "E1" THEN "Alice" ELSE "Bob"

\* A fragment of the ledger's catalog as UniverseState is handed to the
\* coordinator: nobody has collected it yet.
Fragment(id, level) ==
  [ id |-> id, level |-> level, location_world |-> "ancient_dynasty",
    location_coordinates |-> [x |-> 0, y |-> 0, z |-> 0],
    discovered_by |-> None, collected_by |-> None,
    collection_timestamp |-> None ]

\* The catalog: one Legendary fragment followed by seven Sacred ones.
Catalog ==
  << Fragment("F1", "B_LEGENDARY"), Fragment("F2", "A_SACRED"),
     Fragment("F3", "A_SACRED"),    Fragment("F4", "A_SACRED"),
     Fragment("F5", "A_SACRED"),    Fragment("F6", "A_SACRED"),
     Fragment("F7", "A_SACRED"),    Fragment("F8", "A_SACRED") >>

\* A fragment id that is in no catalog, and a clue id that is in no list.
UnknownFragment == "F0"
UnknownKeyFragment == "K0"
KeyFragmentArgs == {"K1", UnknownKeyFragment}

\* Keys offered to decrypt_coordinate_key.
coordinate_key_formula == "key_formula_locked_in_universe_core"
KeyArgs == {coordinate_key_formula, "wrong"}

\* Arguments of choose_return_form: the action, and the form_data with it.
ReturnArgs ==
  { << "return_as_god", None >>,
    << "return_with_new_form", Some("new_form") >> }

\* The amount the driver passes to consume_source_energy directly: more
\* than half of the allocation, so that one such call leaves too little to
\* activate the gateway and an activation leaves too little for the call.
AmountArgs == {8}

\* The values random.randint(1000, 9999) is drawn from, at its two ends.
DestinationArgs == {1000, 9999}

\* What the wall clock reads during a call.  The program only stores the
\* reading; it never compares two of them.
TimeArgs == {"2026-01-01T00:00:00"}

VARIABLES
  escape_attempts,   \* EscapeProtocol.escape_attempts, in insertion order
  terminal_gateway,  \* EscapeProtocol.terminal_gateway
  universe_state,    \* EscapeProtocol.universe_state (the ledger)
  last               \* the last call made and what it returned

vars == << escape_attempts, terminal_gateway, universe_state, last >>
core == << escape_attempts, terminal_gateway, universe_state >>

\* ----------------------------------------------------------------- helpers
\* The least element of a set of indices, 0 when there is none: the first
\* hit of a Python for loop over a list.
FirstIdx(S) == IF S = {} THEN 0 ELSE CHOOSE i \in S : \A j \in S : i <= j

\* Mutant: the append without the membership test.
AppendAlways(list, x) == Append(list, x)

\* `fragment_id not in list: list.append(fragment_id)`.
AppendIfAbsent(list, x) ==
  IF \E i \in 1..Len(list) : list[i] = x THEN list ELSE Append(list, x)

\* Mutant: a removal that leaves the list as it is.
RemoveNothing(list, x) == list

\* list.remove(x): drops the first occurrence of x.
RemoveFirst(list, x) ==
  LET i == FirstIdx({ j \in 1..Len(list) : list[j] = x })
  IN  IF i = 0 THEN list
      ELSE SubSeq(list, 1, i - 1) \o SubSeq(list, i + 1, Len(list))

\* hashlib.sha256(key.encode()).hexdigest(), collision-free on KeyArgs.
sha256(key) == << "sha256", key >>

\* datetime.now().isoformat(), t being what the clock reads during the call.
Timestamp(t) == Some(t)

\* The record of a call: operation, entity argument, other arguments, the
\* boolean returned and the message returned with it (empty when the method
\* returns the boolean alone).
Call(op, e, args, ret, msg) ==
  [ op |-> op, entity |-> e, args |-> args, ret |-> ret, msg |-> msg ]

\* Mutant: the last attempt of entity e instead of the first.
AttemptOf_Last(e) ==
  LET S == { i \in 1..Len(escape_attempts) : escape_attempts[i].entity_id = e }
  IN  IF S = {} THEN 0 ELSE CHOOSE i \in S : \A j \in S : i >= j

\* Index of the first attempt of entity e, in dictionary order.
AttemptOf(e) ==
  FirstIdx({ i \in 1..Len(escape_attempts) : escape_attempts[i].entity_id = e })

\* Index of the first attempt of entity e that has status s.
AttemptWithStatus(e, s) ==
  FirstIdx({ i \in 1..Len(escape_attempts) :
               /\ escape_attempts[i].entity_id = e
               /\ escape_attempts[i].status = s })

\* -------------------------------------------------------------- UniverseState
\* UniverseState.available_source_energy.
available_source_energy(us) ==
  us.total_source_energy_allocated - us.source_energy_consumed

\* Mutant: the debit without the availability check.
consume_source_energy_Unchecked(us, amount) ==
  [ ret |-> TRUE, us |-> [us EXCEPT !.source_energy_consumed = @ + amount] ]

\* Mutant: `available > amount` for `available >= amount`.
consume_source_energy_Strict(us, amount) ==
  LET available == us.total_source_energy_allocated - us.source_energy_consumed
  IN  IF available > amount
      THEN [ ret |-> TRUE,
             us  |-> [us EXCEPT !.source_energy_consumed = @ + amount] ]
      ELSE [ ret |-> FALSE, us |-> us ]

\* Mutant: a refused debit that still takes what is left.
consume_source_energy_Partial(us, amount) ==
  LET available == us.total_source_energy_allocated - us.source_energy_consumed
  IN  IF available >= amount
      THEN [ ret |-> TRUE,
             us  |-> [us EXCEPT !.source_energy_consumed = @ + amount] ]
      ELSE [ ret |-> FALSE,
             us  |-> [us EXCEPT !.source_energy_consumed =
                                   us.total_source_energy_allocated] ]

\* UniverseState.consume_source_energy: the boolean returned and the ledger
\* after the call.
consume_source_energy(us, amount) ==
  LET available == us.total_source_energy_allocated - us.source_energy_consumed
  IN  IF available >= amount
      THEN [ ret |-> TRUE,
             us  |-> [us EXCEPT !.source_energy_consumed = @ + amount] ]
      ELSE [ ret |-> FALSE, us |-> us ]

\* StarData of the default star.  The float fields are kept as their
\* literals.
StarData ==
  [ name                      |-> "Sol-001",
    catalog_id                |-> "SOL_001",
    lifespan_remaining_years  |-> "4.5e9",
    fusion_power_output_watts |-> "3.828e26",
    protection_shield_status  |-> "0.98",
    cloaking_field_active     |-> TRUE ]

\* UniverseMigrationPlan of the default ledger.  The float field and the
\* year, which is beyond 32 bits, are kept as their literals.
UniverseMigrationPlan ==
  [ current_star               |-> StarData,
    next_star_name             |-> "Proxima Centauri",
    next_star_distance_ly      |-> "4.24",
    replication_units_deployed |-> 3,
    estimated_migration_year   |-> "3200000000",
    migration_in_progress      |-> FALSE ]

\* The ledger the coordinator is constructed with.
UniverseState(allocated, consumed, fragments, key_fragments) ==
  [ universe_id                   |-> "RIWA2-Metaverse-001",
    cycle_number                  |-> 8374,
    creation_timestamp            |-> "2026-01-01T00:00:00",
    current_star                  |-> StarData,
    migration_plan                |-> UniverseMigrationPlan,
    escape_gateway_locations      |-> << >>,
    virtual_worlds_active         |-> 2,
    total_source_energy_allocated |-> allocated,
    source_energy_consumed        |-> consumed,
    source_energy_fragments       |-> fragments,
    entities_escaped              |-> << >>,
    escape_keys_needed            |-> 7,
    coordinate_key_fragments      |-> key_fragments ]

\* ------------------------------------------------------------ TerminalGateway
TerminalGateway ==
  [ gateway_id              |-> "gateway-uuid",
    location_world          |-> "universe_singularity",
    location_coordinates    |-> [x |-> 0, y |-> 0, z |-> 0],
    is_active               |-> FALSE,
    activation_time         |-> None,
    activated_by_entity     |-> None,
    source_energy_cost      |-> 7,
    printing_capacity       |-> 1,
    entities_in_queue       |-> << >>,
    current_printing_entity |-> None,
    printing_progress       |-> 0 ]

\* -------------------------------------------------------------- EscapeAttempt
\* EscapeAttempt(entity_id=..., entity_name=...): the dataclass defaults.
\* attempt_id stands for the fresh uuid4.
EscapeAttempt(id, entity_id, entity_name, t) ==
  [ attempt_id                  |-> id,
    entity_id                   |-> entity_id,
    entity_name                 |-> entity_name,
    start_time                  |-> Timestamp(t),
    status                      |-> "NOT_STARTED",
    collected_a_level_fragments |-> << >>,
    discovered_key_fragments    |-> << >>,
    final_coordinate_key        |-> None,
    gateway_id                  |-> None,
    gateway_activation_time     |-> None,
    printing_start_time         |-> None,
    printing_complete_time      |-> None,
    printing_destination        |-> None,
    success                     |-> FALSE,
    result_message              |-> << >>,
    post_escape_action          |-> None,
    new_form_chosen             |-> None ]

\* ------------------------------------------------------------- EscapeProtocol
\* EscapeProtocol.__init__ with the ledger it is given.
Init ==
  /\ escape_attempts = << >>
  /\ terminal_gateway = TerminalGateway
  /\ universe_state = UniverseState(14, 0, Catalog, << "K1" >>)
  /\ last = Call("__init__", "", << >>, TRUE, << >>)

\* Mutant: a verification that accepts every key.
_verify_key_AnyKey(key) == sha256(key) = sha256(key)

\* EscapeProtocol._verify_key.
_verify_key(key) ==
  LET expected == sha256(coordinate_key_formula)
  IN  sha256(key) = expected

\* Mutant: the attempt is stored as constructed, status not set.
start_escape_attempt_NoStatus(entity_id, entity_name, t) ==
  /\ escape_attempts' =
       Append(escape_attempts,
              EscapeAttempt(Len(escape_attempts) + 1, entity_id, entity_name, t))
  /\ last' = Call("start_escape_attempt", entity_id, << entity_name >>, TRUE, << >>)
  /\ UNCHANGED << terminal_gateway, universe_state >>

\* EscapeProtocol.start_escape_attempt.
start_escape_attempt(entity_id, entity_name, t) ==
  /\ LET attempt == EscapeAttempt(Len(escape_attempts) + 1, entity_id, entity_name, t)
     IN  escape_attempts' =
           Append(escape_attempts, [attempt EXCEPT !.status = "FRAGMENTS_COLLECTING"])
  /\ last' = Call("start_escape_attempt", entity_id, << entity_name >>, TRUE, << >>)
  /\ UNCHANGED << terminal_gateway, universe_state >>

\* Mutant: the stamp also claims the discovery of the fragment.
Stamped_Discovering(fragment, entity_id, t) ==
  [fragment EXCEPT !.collected_by = Some(entity_id),
                   !.discovered_by = Some(entity_id),
                   !.collection_timestamp = Timestamp(t)]

\* The fragment stamped by collect_fragment.
Stamped(fragment, entity_id, t) ==
  [fragment EXCEPT !.collected_by = Some(entity_id),
                   !.collection_timestamp = Timestamp(t)]

\* EscapeProtocol.collect_fragment.  The outer loop stops at the first
\* fragment with the id when the entity has an attempt (return True) and
\* otherwise runs on over every fragment with the id.
collect_fragment(entity_id, fragment_id, t) ==
  LET fragments == universe_state.source_energy_fragments
      hits == { i \in 1..Len(fragments) : fragments[i].id = fragment_id }
      a == AttemptOf(entity_id)
      stamp == IF a # 0 THEN {FirstIdx(hits)} \ {0} ELSE hits
  IN  /\ universe_state' =
           [universe_state EXCEPT !.source_energy_fragments =
              [ i \in 1..Len(fragments) |->
                  IF i \in stamp THEN Stamped(fragments[i], entity_id, t)
                  ELSE fragments[i] ]]
      /\ IF hits # {} /\ a # 0
         THEN /\ escape_attempts' =
                   [escape_attempts EXCEPT ![a].collected_a_level_fragments =
                      AppendIfAbsent(@, fragment_id)]
              /\ last' = Call("collect_fragment", entity_id, << fragment_id >>, TRUE, << >>)
         ELSE /\ UNCHANGED escape_attempts
              /\ last' = Call("collect_fragment", entity_id, << fragment_id >>, FALSE, << >>)
      /\ UNCHANGED terminal_gateway

\* EscapeProtocol.discover_key_fragment.
discover_key_fragment(entity_id, fragment_id) ==
  LET keys == universe_state.coordinate_key_fragments
      found == \E i \in 1..Len(keys) : keys[i] = fragment_id
      a == AttemptOf(entity_id)
  IN  /\ IF found /\ a # 0
         THEN /\ escape_attempts' =
                   [escape_attempts EXCEPT
                      ![a].discovered_key_fragments = AppendIfAbsent(@, fragment_id),
                      ![a].status = "KEY_DECRYPTING"]
              /\ last' = Call("discover_key_fragment", entity_id, << fragment_id >>, TRUE, << >>)
         ELSE /\ UNCHANGED escape_attempts
              /\ last' = Call("discover_key_fragment", entity_id, << fragment_id >>, FALSE, << >>)
      /\ UNCHANGED << terminal_gateway, universe_state >>

\* EscapeProtocol.decrypt_coordinate_key.
decrypt_coordinate_key(entity_id, provided_key) ==
  LET a == AttemptOf(entity_id)
  IN  /\ IF a # 0 /\ _verify_key(provided_key)
         THEN /\ escape_attempts' =
                   [escape_attempts EXCEPT
                      ![a].final_coordinate_key = Some(provided_key),
                      ![a].status = "GATEWAY_OPENING"]
              /\ last' = Call("decrypt_coordinate_key", entity_id, << provided_key >>, TRUE, << >>)
         ELSE /\ UNCHANGED escape_attempts
              /\ last' = Call("decrypt_coordinate_key", entity_id, << provided_key >>, FALSE, << >>)
      /\ UNCHANGED << terminal_gateway, universe_state >>

\* Mutant: the activity check dropped.
GatewayAlreadyActive_Ignored == FALSE

\* activate_gateway's first check: `if self.terminal_gateway.is_active`.
GatewayAlreadyActive == terminal_gateway.is_active

\* Mutant: `len(...) < 6` for `len(...) < 7`.
TooFewFragments_OffByOne(attempt) == Len(attempt.collected_a_level_fragments) < 6

\* activate_gateway's fragment check: `len(...) < 7`.
TooFewFragments(attempt) == Len(attempt.collected_a_level_fragments) < 7

\* Mutant: activation that does not record who activated.
ActivatedGateway_Anonymous(gateway, entity_id, t) ==
  [gateway EXCEPT
     !.is_active = TRUE,
     !.activation_time = Timestamp(t),
     !.entities_in_queue = Append(@, entity_id)]

\* Mutant: activation also puts the entity into the printing slot.
ActivatedGateway_Promoting(gateway, entity_id, t) ==
  [gateway EXCEPT
     !.is_active = TRUE,
     !.activation_time = Timestamp(t),
     !.activated_by_entity = Some(entity_id),
     !.entities_in_queue = Append(@, entity_id),
     !.current_printing_entity = Some(entity_id)]

\* The gateway as activate_gateway leaves it on success.
ActivatedGateway(gateway, entity_id, t) ==
  [gateway EXCEPT
     !.is_active = TRUE,
     !.activation_time = Timestamp(t),
     !.activated_by_entity = Some(entity_id),
     !.entities_in_queue = Append(@, entity_id)]

\* EscapeProtocol.activate_gateway.  consume_source_energy works on the
\* ledger in place, so the ledger it leaves is kept when it returns False.
activate_gateway(entity_id, t) ==
  LET a == AttemptWithStatus(entity_id, "GATEWAY_OPENING")
      consumed == consume_source_energy(universe_state, 7)
  IN  IF GatewayAlreadyActive
      THEN /\ last' = Call("activate_gateway", entity_id, << >>, FALSE, << >>)
           /\ UNCHANGED << escape_attempts, terminal_gateway, universe_state >>
      ELSE IF a = 0
      THEN /\ last' = Call("activate_gateway", entity_id, << >>, FALSE, << >>)
           /\ UNCHANGED << escape_attempts, terminal_gateway, universe_state >>
      ELSE IF TooFewFragments(escape_attempts[a])
      THEN /\ last' = Call("activate_gateway", entity_id, << >>, FALSE, << >>)
           /\ UNCHANGED << escape_attempts, terminal_gateway, universe_state >>
      ELSE IF ~consumed.ret
      THEN /\ universe_state' = consumed.us
           /\ last' = Call("activate_gateway", entity_id, << >>, FALSE, << >>)
           /\ UNCHANGED << escape_attempts, terminal_gateway >>
      ELSE /\ universe_state' = consumed.us
           /\ terminal_gateway' = ActivatedGateway(terminal_gateway, entity_id, t)
           /\ escape_attempts' =
                [escape_attempts EXCEPT
                   ![a].gateway_activation_time = Timestamp(t),
                   ![a].status = "PRINTING"]
           /\ last' = Call("activate_gateway", entity_id, << >>, TRUE, << >>)

\* EscapeProtocol._generate_destination with the random number drawn.
_generate_destination(n) == << "Alpha_Centauri", n >>

\* EscapeProtocol.print_entity_to_real_universe.
print_entity_to_real_universe(entity_id, n, t) ==
  LET a == AttemptWithStatus(entity_id, "PRINTING")
  IN  IF \/ ~terminal_gateway.is_active
         \/ terminal_gateway.current_printing_entity # Some(entity_id)
      THEN /\ last' = Call("print_entity_to_real_universe", entity_id, << >>, FALSE,
                           << "Gateway not ready or entity not in printing slot" >>)
           /\ UNCHANGED << escape_attempts, terminal_gateway, universe_state >>
      ELSE IF a # 0
      THEN /\ escape_attempts' =
                [escape_attempts EXCEPT
                   ![a].printing_start_time = Timestamp(t),
                   ![a].printing_destination =
                      Some(<< "RealUniverse_Coordinates" >> \o _generate_destination(n))]
           /\ last' = Call("print_entity_to_real_universe", entity_id, << >>, TRUE,
                           << "Printing initiated" >>)
           /\ UNCHANGED << terminal_gateway, universe_state >>
      ELSE /\ last' = Call("print_entity_to_real_universe", entity_id, << >>, FALSE,
                           << "No active escape attempt for entity" >>)
           /\ UNCHANGED << escape_attempts, terminal_gateway, universe_state >>

\* f"Successfully transcended to real universe at {printing_destination}".
ResultMessage(printing_destination) ==
  << "Successfully transcended to real universe at", printing_destination >>

\* EscapeProtocol.complete_escape.
complete_escape(entity_id, t) ==
  LET a == AttemptWithStatus(entity_id, "PRINTING")
  IN  IF a # 0
      THEN /\ escape_attempts' =
                [escape_attempts EXCEPT
                   ![a].printing_complete_time = Timestamp(t),
                   ![a].success = TRUE,
                   ![a].status = "ESCAPED",
                   ![a].result_message =
                      ResultMessage(escape_attempts[a].printing_destination)]
           /\ terminal_gateway' =
                [terminal_gateway EXCEPT
                   !.entities_in_queue = RemoveFirst(@, entity_id),
                   !.current_printing_entity = None]
           /\ universe_state' =
                [universe_state EXCEPT !.entities_escaped = Append(@, entity_id)]
           /\ last' = Call("complete_escape", entity_id, << >>, TRUE,
                           ResultMessage(escape_attempts[a].printing_destination))
      ELSE /\ last' = Call("complete_escape", entity_id, << >>, FALSE,
                           << "No escape attempt found" >>)
           /\ UNCHANGED << escape_attempts, terminal_gateway, universe_state >>

\* Mutant: the first attempt of the entity, successful or not.
SuccessfulAttemptOf_AnyAttempt(entity_id) ==
  FirstIdx({ i \in 1..Len(escape_attempts) :
               escape_attempts[i].entity_id = entity_id })

\* choose_return_form's search: the first attempt of the entity with
\* success set; 0 when there is none.
SuccessfulAttemptOf(entity_id) ==
  FirstIdx({ i \in 1..Len(escape_attempts) :
               /\ escape_attempts[i].entity_id = entity_id
               /\ escape_attempts[i].success })

\* EscapeProtocol.choose_return_form.
choose_return_form(entity_id, action, form_data) ==
  LET a == SuccessfulAttemptOf(entity_id)
  IN  /\ IF a # 0
         THEN /\ escape_attempts' =
                   [escape_attempts EXCEPT
                      ![a].post_escape_action = Some(action),
                      ![a].new_form_chosen =
                         IF form_data # None THEN form_data ELSE @]
              /\ last' = Call("choose_return_form", entity_id, << action, form_data >>, TRUE, << >>)
         ELSE /\ UNCHANGED escape_attempts
              /\ last' = Call("choose_return_form", entity_id, << action, form_data >>, FALSE, << >>)
      /\ UNCHANGED << terminal_gateway, universe_state >>

\* A direct call of UniverseState.consume_source_energy by the driver.
ConsumeSourceEnergy(amount) ==
  LET r == consume_source_energy(universe_state, amount)
  IN  /\ universe_state' = r.us
      /\ last' = Call("consume_source_energy", "", << amount >>, r.ret, << >>)
      /\ UNCHANGED << escape_attempts, terminal_gateway >>

\* ------------------------------------------------------------------- driver
\* Number of fragment ids the first attempt of entity e holds.
Held(e) ==
  IF AttemptOf(e) = 0 THEN 0
  ELSE Len(escape_attempts[AttemptOf(e)].collected_a_level_fragments)

\* The entities that come before e in the order the driver processes them.
\* The code treats all entity ids alike, so the driver starts and serves
\* them in one fixed order.
Before(e) == { d \in Entities : e = "E2" /\ d = "E1" }

\* The driver serialises collection: an entity is offered the first
\* fragment of the catalog again once it holds one, an id that does not
\* exist, and the next fragment of the catalog once every entity before it
\* holds the whole catalog.
CollectingTurn(e) ==
  \A d \in Before(e) : Held(d) = Len(universe_state.source_energy_fragments)

FragmentArgs(e) ==
  LET fragments == universe_state.source_energy_fragments
      offered == (IF Held(e) >= 1 THEN {1} ELSE {})
                   \cup (IF CollectingTurn(e) THEN {Held(e) + 1} ELSE {})
  IN  { fragments[i].id : i \in offered \cap (1..Len(fragments)) }
        \cup {UnknownFragment}

StartEscapeAttempt ==
  \E e \in Entities : \E t \in TimeArgs :
     /\ Len(escape_attempts) < MaxAttempts
     /\ \A d \in Before(e) : AttemptOf(d) # 0
     /\ start_escape_attempt(e, EntityName(e), t)
CollectFragment ==
  \E e \in Entities : \E f \in FragmentArgs(e) : \E t \in TimeArgs : collect_fragment(e, f, t)
DiscoverKeyFragment ==
  \E e \in Entities : \E f \in KeyFragmentArgs : discover_key_fragment(e, f)
DecryptCoordinateKey ==
  \E e \in Entities : \E k \in KeyArgs : decrypt_coordinate_key(e, k)
ActivateGateway ==
  \E e \in Entities : \E t \in TimeArgs : activate_gateway(e, t)
PrintEntity ==
  \E e \in Entities : \E n \in DestinationArgs : \E t \in TimeArgs :
     print_entity_to_real_universe(e, n, t)
CompleteEscape ==
  \E e \in Entities : \E t \in TimeArgs : complete_escape(e, t)
ChooseReturnForm ==
  \E e \in Entities : \E x \in ReturnArgs : choose_return_form(e, x[1], x[2])
ConsumeEnergy == \E amount \in AmountArgs : ConsumeSourceEnergy(amount)

Next ==
  \/ StartEscapeAttempt
  \/ CollectFragment
  \/ DiscoverKeyFragment
  \/ DecryptCoordinateKey
  \/ ActivateGateway
  \/ PrintEntity
  \/ CompleteEscape
  \/ ChooseReturnForm
  \/ ConsumeEnergy

Spec == Init /\ [][Next]_vars

\* ------------------------------------------------------ the ledger on its own
\* A ledger with 0 <= consumed <= allocated and direct calls of
\* consume_source_energy with amounts 0..MaxAmount.
InitLedger ==
  /\ escape_attempts = << >>
  /\ terminal_gateway = TerminalGateway
  /\ universe_state \in
       { UniverseState(allocated, consumed, << >>, << >>) :
           allocated \in 0..MaxEnergy, consumed \in 0..MaxEnergy }
  /\ universe_state.source_energy_consumed
       <= universe_state.total_source_energy_allocated
  /\ last = Call("__init__", "", << >>, TRUE, << >>)

NextLedger == \E amount \in 0..MaxAmount : ConsumeSourceEnergy(amount)

SpecLedger == InitLedger /\ [][NextLedger]_vars

\* -------------------------------------------------- the readiness check
\* Mutant: the count takes fragments of every level.
check_escape_readiness_AnyLevel(us, entity_id) ==
  LET entity_fragments ==
        SelectSeq(us.source_energy_fragments,
                  LAMBDA f : f.collected_by = Some(entity_id))
      has_fragments == Len(entity_fragments) >= us.escape_keys_needed
      has_key == \E k \in 1..Len(us.coordinate_key_fragments) :
                   us.coordinate_key_fragments[k] = entity_id
  IN  IF has_fragments /\ has_key
      THEN [ret |-> TRUE, msg |-> << "Ready for escape" >>]
      ELSE [ret |-> FALSE,
            msg |-> IF ~has_fragments
                    THEN << "Missing:", us.escape_keys_needed - Len(entity_fragments),
                            "fragments" >>
                    ELSE << "Key coordinates incomplete" >>]

\* UniverseState.check_escape_readiness: the pair it returns.  The reason
\* f"Missing: {n} fragments" is kept as its three parts.
check_escape_readiness(us, entity_id) ==
  LET entity_fragments ==
        SelectSeq(us.source_energy_fragments,
                  LAMBDA f : /\ f.collected_by = Some(entity_id)
                             /\ f.level = "A_SACRED")
      has_fragments == Len(entity_fragments) >= us.escape_keys_needed
      has_key == \E k \in 1..Len(us.coordinate_key_fragments) :
                   us.coordinate_key_fragments[k] = entity_id
  IN  IF has_fragments /\ has_key
      THEN [ret |-> TRUE, msg |-> << "Ready for escape" >>]
      ELSE [ret |-> FALSE,
            msg |-> IF ~has_fragments
                    THEN << "Missing:", us.escape_keys_needed - Len(entity_fragments),
                            "fragments" >>
                    ELSE << "Key coordinates incomplete" >>]

\* A call of check_escape_readiness: it returns and writes nothing.
CheckEscapeReadiness(entity_id) ==
  LET r == check_escape_readiness(universe_state, entity_id)
  IN  /\ last' = Call("check_escape_readiness", entity_id, << >>, r.ret, r.msg)
      /\ UNCHANGED << escape_attempts, terminal_gateway, universe_state >>

\* The catalog after collect_fragment stamped its first k fragments for E1
\* and, when rest is an entity, the others for that entity.
Collected(k, rest) ==
  [ i \in 1..Len(Catalog) |->
      IF i <= k THEN Stamped(Catalog[i], "E1", "2026-01-01T00:00:00")
      ELSE IF rest \in Entities THEN Stamped(Catalog[i], rest, "2026-01-01T00:00:00")
      ELSE Catalog[i] ]

\* Lists of coordinate_key_fragments a ledger is built with: clue ids, and
\* lists that also hold an entity id.
KeyFragmentLists ==
  { << >>, << "K1" >>, << "E1" >>, << "K1", "E1" >>, << "E2", "K1" >> }

\* The readiness check on its own: every ledger of the family above, then
\* calls of check_escape_readiness for either entity.
InitReadiness ==
  /\ escape_attempts = << >>
  /\ terminal_gateway = TerminalGateway
  /\ \E k \in 0..Len(Catalog) : \E rest \in {"", "E2"} :
       \E key_fragments \in KeyFragmentLists :
         universe_state = UniverseState(14, 0, Collected(k, rest), key_fragments)
  /\ last = Call("__init__", "", << >>, TRUE, << >>)

NextReadiness == \E e \in Entities : CheckEscapeReadiness(e)

SpecReadiness == InitReadiness /\ [][NextReadiness]_vars

\* ------------------------------------------------------------ serialization
\* A dict is a function from its keys.  data.get(key, default).
Get(data, key, default) == IF key \in DOMAIN data THEN data[key] ELSE default

\* Enum(value): the member that carries the value; there is none for any
\* other value (ValueError).
EnumMember(enum, value) == CHOOSE m \in DOMAIN enum : enum[m] = value

\* SourceEnergyFragment.to_dict.
SourceEnergyFragment_to_dict(self) ==
  [ id                   |-> self.id,
    level                |-> SourceEnergyLevel[self.level],
    location_world       |-> self.location_world,
    location_coordinates |-> self.location_coordinates,
    discovered_by        |-> self.discovered_by,
    collected_by         |-> self.collected_by,
    collection_timestamp |-> self.collection_timestamp ]

\* SourceEnergyFragment.from_dict.
SourceEnergyFragment_from_dict(data) ==
  [ id                   |-> data["id"],
    level                |-> EnumMember(SourceEnergyLevel, data["level"]),
    location_world       |-> data["location_world"],
    location_coordinates |-> data["location_coordinates"],
    discovered_by        |-> Get(data, "discovered_by", None),
    collected_by         |-> Get(data, "collected_by", None),
    collection_timestamp |-> Get(data, "collection_timestamp", None) ]

\* StarData.to_dict.
StarData_to_dict(self) ==
  [ name                      |-> self.name,
    catalog_id                |-> self.catalog_id,
    lifespan_remaining_years  |-> self.lifespan_remaining_years,
    fusion_power_output_watts |-> self.fusion_power_output_watts,
    protection_shield_status  |-> self.protection_shield_status,
    cloaking_field_active     |-> self.cloaking_field_active ]

\* StarData.from_dict.
StarData_from_dict(data) ==
  [ name                      |-> data["name"],
    catalog_id                |-> data["catalog_id"],
    lifespan_remaining_years  |-> data["lifespan_remaining_years"],
    fusion_power_output_watts |-> data["fusion_power_output_watts"],
    protection_shield_status  |-> data["protection_shield_status"],
    cloaking_field_active     |-> data["cloaking_field_active"] ]

\* UniverseMigrationPlan.to_dict.
UniverseMigrationPlan_to_dict(self) ==
  [ current_star               |-> StarData_to_dict(self.current_star),
    next_star_name             |-> self.next_star_name,
    next_star_distance_ly      |-> self.next_star_distance_ly,
    replication_units_deployed |-> self.replication_units_deployed,
    estimated_migration_year   |-> self.estimated_migration_year,
    migration_in_progress      |-> self.migration_in_progress ]

\* UniverseMigrationPlan.from_dict.
UniverseMigrationPlan_from_dict(data) ==
  [ current_star               |-> StarData_from_dict(data["current_star"]),
    next_star_name             |-> data["next_star_name"],
    next_star_distance_ly      |-> data["next_star_distance_ly"],
    replication_units_deployed |-> data["replication_units_deployed"],
    estimated_migration_year   |-> data["estimated_migration_year"],
    migration_in_progress      |-> Get(data, "migration_in_progress", FALSE) ]

\* UniverseState.to_dict.
UniverseState_to_dict(self) ==
  [ universe_id                   |-> self.universe_id,
    cycle_number                  |-> self.cycle_number,
    creation_timestamp            |-> self.creation_timestamp,
    current_star                  |-> StarData_to_dict(self.current_star),
    migration_plan                |-> UniverseMigrationPlan_to_dict(self.migration_plan),
    total_source_energy_allocated |-> self.total_source_energy_allocated,
    source_energy_consumed        |-> self.source_energy_consumed,
    source_energy_fragments       |->
      [ i \in 1..Len(self.source_energy_fragments) |->
          SourceEnergyFragment_to_dict(self.source_energy_fragments[i]) ],
    escape_gateway_locations      |-> self.escape_gateway_locations,
    entities_escaped              |-> self.entities_escaped,
    escape_keys_needed            |-> self.escape_keys_needed,
    coordinate_key_fragments      |-> self.coordinate_key_fragments,
    virtual_worlds_active         |-> self.virtual_worlds_active ]

\* UniverseState.from_dict.
UniverseState_from_dict(data) ==
  LET fragments == Get(data, "source_energy_fragments", << >>)
  IN  [ universe_id                   |-> Get(data, "universe_id", "RIWA2-Metaverse-001"),
        cycle_number                  |-> Get(data, "cycle_number", 8374),
        creation_timestamp            |-> Get(data, "creation_timestamp", "now"),
        current_star                  |-> StarData_from_dict(data["current_star"]),
        migration_plan                |->
          UniverseMigrationPlan_from_dict(data["migration_plan"]),
        total_source_energy_allocated |->
          Get(data, "total_source_energy_allocated", 1000000),
        source_energy_consumed        |-> Get(data, "source_energy_consumed", 0),
        source_energy_fragments       |->
          [ i \in 1..Len(fragments) |-> SourceEnergyFragment_from_dict(fragments[i]) ],
        escape_gateway_locations      |-> Get(data, "escape_gateway_locations", << >>),
        entities_escaped              |-> Get(data, "entities_escaped", << >>),
        escape_keys_needed            |-> Get(data, "escape_keys_needed", 7),
        coordinate_key_fragments      |-> Get(data, "coordinate_key_fragments", << >>),
        virtual_worlds_active         |-> Get(data, "virtual_worlds_active", 2) ]

\* TerminalGateway.to_dict.
TerminalGateway_to_dict(self) ==
  [ gateway_id              |-> self.gateway_id,
    location_world          |-> self.location_world,
    location_coordinates    |-> self.location_coordinates,
    is_active               |-> self.is_active,
    activation_time         |-> self.activation_time,
    activated_by_entity     |-> self.activated_by_entity,
    source_energy_cost      |-> self.source_energy_cost,
    printing_capacity       |-> self.printing_capacity,
    entities_in_queue       |-> self.entities_in_queue,
    current_printing_entity |-> self.current_printing_entity,
    printing_progress       |-> self.printing_progress ]

\* TerminalGateway.from_dict.
TerminalGateway_from_dict(data) ==
  [ gateway_id              |-> Get(data, "gateway_id", "fresh-uuid"),
    location_world          |-> Get(data, "location_world", "universe_singularity"),
    location_coordinates    |->
      Get(data, "location_coordinates", [x |-> 0, y |-> 0, z |-> 0]),
    is_active               |-> Get(data, "is_active", FALSE),
    activation_time         |-> Get(data, "activation_time", None),
    activated_by_entity     |-> Get(data, "activated_by_entity", None),
    source_energy_cost      |-> Get(data, "source_energy_cost", 7),
    printing_capacity       |-> Get(data, "printing_capacity", 1),
    entities_in_queue       |-> Get(data, "entities_in_queue", << >>),
    current_printing_entity |-> Get(data, "current_printing_entity", None),
    printing_progress       |-> Get(data, "printing_progress", 0) ]

\* EscapeAttempt.to_dict.
EscapeAttempt_to_dict(self) ==
  [ attempt_id                  |-> self.attempt_id,
    entity_id                   |-> self.entity_id,
    entity_name                 |-> self.entity_name,
    start_time                  |-> self.start_time,
    status                      |-> EscapeStatus[self.status],
    collected_a_level_fragments |-> self.collected_a_level_fragments,
    discovered_key_fragments    |-> self.discovered_key_fragments,
    final_coordinate_key        |-> self.final_coordinate_key,
    gateway_id                  |-> self.gateway_id,
    gateway_activation_time     |-> self.gateway_activation_time,
    printing_start_time         |-> self.printing_start_time,
    printing_complete_time      |-> self.printing_complete_time,
    printing_destination        |-> self.printing_destination,
    success                     |-> self.success,
    result_message              |-> self.result_message,
    post_escape_action          |-> self.post_escape_action,
    new_form_chosen             |-> self.new_form_chosen ]

\* Mutant: the status is read under a key that to_dict does not write.
EscapeAttempt_from_dict_WrongKey(data) ==
  [ attempt_id                  |-> Get(data, "attempt_id", "fresh-uuid"),
    entity_id                   |-> data["entity_id"],
    entity_name                 |-> data["entity_name"],
    start_time                  |-> Get(data, "start_time", Timestamp("now")),
    status                      |->
      EnumMember(EscapeStatus, Get(data, "state", "not_started")),
    collected_a_level_fragments |-> Get(data, "collected_a_level_fragments", << >>),
    discovered_key_fragments    |-> Get(data, "discovered_key_fragments", << >>),
    final_coordinate_key        |-> Get(data, "final_coordinate_key", None),
    gateway_id                  |-> Get(data, "gateway_id", None),
    gateway_activation_time     |-> Get(data, "gateway_activation_time", None),
    printing_start_time         |-> Get(data, "printing_start_time", None),
    printing_complete_time      |-> Get(data, "printing_complete_time", None),
    printing_destination        |-> Get(data, "printing_destination", None),
    success                     |-> Get(data, "success", FALSE),
    result_message              |-> Get(data, "result_message", << >>),
    post_escape_action          |-> Get(data, "post_escape_action", None),
    new_form_chosen             |-> Get(data, "new_form_chosen", None) ]

\* EscapeAttempt.from_dict.
EscapeAttempt_from_dict(data) ==
  [ attempt_id                  |-> Get(data, "attempt_id", "fresh-uuid"),
    entity_id                   |-> data["entity_id"],
    entity_name                 |-> data["entity_name"],
    start_time                  |-> Get(data, "start_time", Timestamp("now")),
    status                      |->
      EnumMember(EscapeStatus, Get(data, "status", "not_started")),
    collected_a_level_fragments |-> Get(data, "collected_a_level_fragments", << >>),
    discovered_key_fragments    |-> Get(data, "discovered_key_fragments", << >>),
    final_coordinate_key        |-> Get(data, "final_coordinate_key", None),
    gateway_id                  |-> Get(data, "gateway_id", None),
    gateway_activation_time     |-> Get(data, "gateway_activation_time", None),
    printing_start_time         |-> Get(data, "printing_start_time", None),
    printing_complete_time      |-> Get(data, "printing_complete_time", None),
    printing_destination        |-> Get(data, "printing_destination", None),
    success                     |-> Get(data, "success", FALSE),
    result_message              |-> Get(data, "result_message", << >>),
    post_escape_action          |-> Get(data, "post_escape_action", None),
    new_form_chosen             |-> Get(data, "new_form_chosen", None) ]

\* ================================================================== claims
\* The place of a status in the order
\* NotStarted < FragmentsCollecting < KeyDecrypting < GatewayOpening <
\* Printing < Escaped.
StageRank ==
  [ NOT_STARTED |-> 0, FRAGMENTS_COLLECTING |-> 1, KEY_DECRYPTING |-> 2,
    GATEWAY_OPENING |-> 3, PRINTING |-> 4, ESCAPED |-> 5, FAILED |-> 6 ]

Attempts == 1..Len(escape_attempts)
Range(list) == { list[i] : i \in 1..Len(list) }
NoDuplicates(list) == \A i, j \in 1..Len(list) : list[i] = list[j] => i = j
CatalogIds == Range([ i \in 1..Len(universe_state.source_energy_fragments) |->
                        universe_state.source_energy_fragments[i].id ])

\* The attempts of entity e that are in GatewayOpening and hold at least 7
\* collected fragment ids.
ReadyAttempts(e) ==
  { i \in Attempts :
      /\ escape_attempts[i].entity_id = e
      /\ escape_attempts[i].status = "GATEWAY_OPENING"
      /\ Len(escape_attempts[i].collected_a_level_fragments) >= 7 }

\* The Sacred-tier ledger fragments among the ids attempt i holds.
SacredHeld(i) ==
  { f \in Range(escape_attempts[i].collected_a_level_fragments) :
      \E k \in 1..Len(universe_state.source_energy_fragments) :
         /\ universe_state.source_energy_fragments[k].id = f
         /\ universe_state.source_energy_fragments[k].level = "A_SACRED" }

\* C1: over any sequence of coordinator operations no attempt's status moves
\* to an earlier stage of the order NotStarted < ... < Escaped.
C1_StatusNeverRegresses ==
  [][ \A i \in Attempts :
        StageRank[escape_attempts'[i].status] >= StageRank[escape_attempts[i].status]
    ]_vars

\* C2: every status change made by an operation moves the attempt to the
\* stage that immediately follows its current one.
C2_NoStageSkipped ==
  [][ \A i \in Attempts :
        escape_attempts'[i].status # escape_attempts[i].status
          => StageRank[escape_attempts'[i].status]
               = StageRank[escape_attempts[i].status] + 1
    ]_vars

\* C3: once the gateway is active it stays active, and every activate_gateway
\* call made while it is active returns false, so activate_gateway returns
\* true at most once.
C3_ActivateAtMostOnce ==
  [][ /\ terminal_gateway.is_active => terminal_gateway'.is_active
      /\ (last'.op = "activate_gateway" /\ terminal_gateway.is_active)
           => ~last'.ret
    ]_vars

\* C3 witness: with the gateway already activated by another entity, an entity
\* that is in GatewayOpening with 7 fragments, and with 7 energy available,
\* has called activate_gateway and got false.
C3_Witness ==
  /\ last.op = "activate_gateway"
  /\ ~last.ret
  /\ terminal_gateway.is_active
  /\ terminal_gateway.activated_by_entity # Some(last.entity)
  /\ ReadyAttempts(last.entity) # {}
  /\ available_source_energy(universe_state) >= 7

\* C4: 0 <= source_energy_consumed <= total_source_energy_allocated in every
\* state, and source_energy_consumed never decreases.
C4_EnergyBounded ==
  /\ [](/\ 0 <= universe_state.source_energy_consumed
        /\ universe_state.source_energy_consumed
             <= universe_state.total_source_energy_allocated)
  /\ [][ universe_state'.source_energy_consumed
           >= universe_state.source_energy_consumed ]_vars

\* C4 witness: the gateway activation has debited the ledger and a direct
\* consume_source_energy call that would overdraw it has been refused.
C4_Witness ==
  /\ terminal_gateway.is_active
  /\ universe_state.source_energy_consumed = 7
  /\ last.op = "consume_source_energy"
  /\ ~last.ret

\* C5: consume_source_energy(amount) returns true exactly when
\* allocated - consumed >= amount and then adds exactly amount to consumed;
\* otherwise it returns false and leaves the whole ledger as it was.
C5_ConsumeAtomic ==
  [][ last'.op = "consume_source_energy" =>
        LET amount == last'.args[1]
            enough == universe_state.total_source_energy_allocated
                        - universe_state.source_energy_consumed >= amount
        IN  /\ last'.ret = enough
            /\ enough => universe_state' =
                 [universe_state EXCEPT !.source_energy_consumed = @ + amount]
            /\ ~enough => universe_state' = universe_state
    ]_vars

\* C5 witness: allocated = 10, consumed = 7 and consume(7) has just been
\* refused.
C5_Witness ==
  /\ universe_state.total_source_energy_allocated = 10
  /\ universe_state.source_energy_consumed = 7
  /\ last = Call("consume_source_energy", "", << 7 >>, FALSE, << >>)

\* C6: whenever activate_gateway(e) has returned true, the attempt of e that
\* went to Printing holds at least 7 ids of Sacred-tier ledger fragments.
C6_ActivationNeedsSacred ==
  (last.op = "activate_gateway" /\ last.ret) =>
     \A i \in Attempts :
        (escape_attempts[i].entity_id = last.entity
           /\ escape_attempts[i].status = "PRINTING")
          => Cardinality(SacredHeld(i)) >= 7

\* C7: activate_gateway(e) returns true exactly when the gateway is inactive,
\* e has an attempt in GatewayOpening with at least 7 collected ids and the
\* ledger has 7 energy available; then consumed grows by 7, the gateway is
\* active with activated_by_entity = e, e is appended to the queue and that
\* attempt is in Printing.
C7_ActivateExactly ==
  [][ last'.op = "activate_gateway" =>
        LET e == last'.entity
            ready == /\ ~terminal_gateway.is_active
                     /\ ReadyAttempts(e) # {}
                     /\ available_source_energy(universe_state) >= 7
        IN  /\ last'.ret = ready
            /\ ready =>
                 /\ universe_state'.source_energy_consumed
                      = universe_state.source_energy_consumed + 7
                 /\ terminal_gateway'.is_active
                 /\ terminal_gateway'.activated_by_entity = Some(e)
                 /\ terminal_gateway'.entities_in_queue
                      = Append(terminal_gateway.entities_in_queue, e)
                 /\ \E i \in ReadyAttempts(e) :
                      /\ escape_attempts'[i].status = "PRINTING"
                      /\ \A j \in Attempts \ {i} :
                           escape_attempts'[j] = escape_attempts[j]
    ]_vars

\* C7 witness: activate_gateway has just returned true.
C7_Witness ==
  /\ last.op = "activate_gateway"
  /\ last.ret
  /\ terminal_gateway.activated_by_entity = Some(last.entity)

\* C8: a call of discover_key_fragment, decrypt_coordinate_key,
\* activate_gateway, print_entity_to_real_universe, complete_escape or
\* choose_return_form that returns false changes no attempt, not the gateway
\* and not the ledger.
C8_FailureChangesNothing ==
  [][ ( /\ last'.op \in { "discover_key_fragment", "decrypt_coordinate_key",
                         "activate_gateway", "print_entity_to_real_universe",
                         "complete_escape", "choose_return_form" }
        /\ ~last'.ret )
        => UNCHANGED core
    ]_vars

\* C8 witness: activate_gateway has returned false for an entity in
\* GatewayOpening with 7 fragments, the gateway inactive, because the ledger
\* has less than 7 energy available.
C8_Witness ==
  /\ last.op = "activate_gateway"
  /\ ~last.ret
  /\ ~terminal_gateway.is_active
  /\ ReadyAttempts(last.entity) # {}
  /\ available_source_energy(universe_state) < 7

\* C9: collect_fragment(e, f) returns true exactly when f is in the catalog
\* and e has an attempt, and when it returns false no attempt and no ledger
\* fragment has changed.
C9_CollectNotFoundChangesNothing ==
  [][ last'.op = "collect_fragment" =>
        /\ last'.ret = (last'.args[1] \in CatalogIds /\ AttemptOf(last'.entity) # 0)
        /\ ~last'.ret => UNCHANGED core
    ]_vars

\* C10: no attempt's collected list holds a fragment id twice, and a
\* collect_fragment call for an id the entity's attempt already holds leaves
\* every attempt as it was.
C10_CollectIdempotent ==
  /\ [](\A i \in Attempts :
          NoDuplicates(escape_attempts[i].collected_a_level_fragments))
  /\ [][ ( /\ last'.op = "collect_fragment"
           /\ AttemptOf(last'.entity) # 0
           /\ last'.args[1] \in
                Range(escape_attempts[AttemptOf(last'.entity)].collected_a_level_fragments) )
           => /\ last'.ret
              /\ escape_attempts' = escape_attempts
       ]_vars

\* C10 witness: an entity whose attempt holds two fragments has collected the
\* first of them again.
C10_Witness ==
  /\ last = Call("collect_fragment", last.entity, << "F1" >>, TRUE, << >>)
  /\ AttemptOf(last.entity) # 0
  /\ Len(escape_attempts[AttemptOf(last.entity)].collected_a_level_fragments) >= 2
  /\ escape_attempts[AttemptOf(last.entity)].collected_a_level_fragments[1] = "F1"

\* C11: decrypt_coordinate_key with a key other than the master formula
\* returns false and changes no attempt (status and final_coordinate_key stay
\* as they were); with the master formula and an attempt of e it returns
\* true, stores the key in final_coordinate_key and the status is
\* GatewayOpening.
C11_DecryptVerifies ==
  [][ last'.op = "decrypt_coordinate_key" =>
        LET e == last'.entity
            key == last'.args[1]
            a == AttemptOf(e)
        IN  /\ key # coordinate_key_formula =>
                 /\ ~last'.ret
                 /\ escape_attempts' = escape_attempts
            /\ (key = coordinate_key_formula /\ a # 0) =>
                 /\ last'.ret
                 /\ escape_attempts'[a].final_coordinate_key = Some(key)
                 /\ escape_attempts'[a].status = "GATEWAY_OPENING"
    ]_vars

\* C11 witness: a wrong key has just been refused for an entity whose attempt
\* is in KeyDecrypting and holds no key.
C11_Witness ==
  /\ last.op = "decrypt_coordinate_key"
  /\ last.args = << "wrong" >>
  /\ ~last.ret
  /\ AttemptOf(last.entity) # 0
  /\ escape_attempts[AttemptOf(last.entity)].status = "KEY_DECRYPTING"
  /\ escape_attempts[AttemptOf(last.entity)].final_coordinate_key = None

\* C12: discover_key_fragment(e, f) returns true exactly when f is in the
\* ledger's coordinate_key_fragments and e has an attempt; then f is in that
\* attempt's discovered_key_fragments exactly once and its status is
\* KeyDecrypting; when it returns false nothing has changed.
C12_DiscoverExactly ==
  [][ last'.op = "discover_key_fragment" =>
        LET e == last'.entity
            f == last'.args[1]
            a == AttemptOf(e)
            listed == f \in Range(universe_state.coordinate_key_fragments)
        IN  /\ last'.ret = (listed /\ a # 0)
            /\ last'.ret =>
                 /\ Cardinality({ k \in 1..Len(escape_attempts'[a].discovered_key_fragments) :
                                    escape_attempts'[a].discovered_key_fragments[k] = f }) = 1
                 /\ escape_attempts'[a].status = "KEY_DECRYPTING"
            /\ ~last'.ret => UNCHANGED core
    ]_vars

\* C12 witness: a listed clue has just been discovered by an entity with an
\* attempt.
C12_Witness ==
  /\ last.op = "discover_key_fragment"
  /\ last.ret
  /\ escape_attempts[AttemptOf(last.entity)].discovered_key_fragments = << "K1" >>
  /\ escape_attempts[AttemptOf(last.entity)].status = "KEY_DECRYPTING"

\* C13: nothing promotes an entity into the printing slot, so
\* current_printing_entity is unset in every reachable state, every call of
\* print_entity_to_real_universe returns false with the not-ready message,
\* and printing_start_time and printing_destination of every attempt stay
\* unset, those of escaped attempts included.
C13_PrintNeverSucceeds ==
  /\ terminal_gateway.current_printing_entity = None
  /\ \A i \in Attempts :
       /\ escape_attempts[i].printing_start_time = None
       /\ escape_attempts[i].printing_destination = None
  /\ last.op = "print_entity_to_real_universe" =>
       /\ ~last.ret
       /\ last.msg = << "Gateway not ready or entity not in printing slot" >>

\* C13 witness: printing has just been asked for by an entity whose attempt
\* is in Printing on the gateway that this entity activated.
C13_Witness ==
  /\ last.op = "print_entity_to_real_universe"
  /\ terminal_gateway.is_active
  /\ terminal_gateway.activated_by_entity = Some(last.entity)
  /\ AttemptWithStatus(last.entity, "PRINTING") # 0

\* C14: complete_escape(e) succeeds exactly when e has an attempt in Printing;
\* then that attempt has success set and status Escaped, e is not in
\* entities_in_queue, current_printing_entity is unset, e has been appended
\* to entities_escaped, and is_active is unchanged and true.
C14_CompleteExactly ==
  [][ last'.op = "complete_escape" =>
        LET e == last'.entity
            a == AttemptWithStatus(e, "PRINTING")
        IN  /\ last'.ret = (a # 0)
            /\ last'.ret =>
                 /\ escape_attempts'[a].success
                 /\ escape_attempts'[a].status = "ESCAPED"
                 /\ e \notin Range(terminal_gateway'.entities_in_queue)
                 /\ terminal_gateway'.current_printing_entity = None
                 /\ universe_state'.entities_escaped =
                      Append(universe_state.entities_escaped, e)
                 /\ terminal_gateway'.is_active = terminal_gateway.is_active
                 /\ terminal_gateway'.is_active
    ]_vars

\* C14 witness: an escape has just been completed.
C14_Witness ==
  /\ last.op = "complete_escape"
  /\ last.ret
  /\ universe_state.entities_escaped = << last.entity >>
  /\ terminal_gateway.entities_in_queue = << >>

\* C15: choose_return_form(e, ...) returns true exactly when e has an attempt
\* with success set, and then records the action in post_escape_action; it
\* changes no attempt's status, not the gateway and not the ledger; an
\* attempt without success has no post_escape_action.
C15_ChooseAfterEscape ==
  /\ [](\A i \in Attempts :
          ~escape_attempts[i].success => escape_attempts[i].post_escape_action = None)
  /\ [][ last'.op = "choose_return_form" =>
           LET e == last'.entity
               a == FirstIdx({ i \in Attempts : /\ escape_attempts[i].entity_id = e
                                                /\ escape_attempts[i].success })
           IN  /\ last'.ret = (a # 0)
               /\ last'.ret =>
                    escape_attempts'[a].post_escape_action = Some(last'.args[1])
               /\ Len(escape_attempts') = Len(escape_attempts)
               /\ \A i \in Attempts : escape_attempts'[i].status = escape_attempts[i].status
               /\ UNCHANGED << terminal_gateway, universe_state >>
       ]_vars

\* C15 witness: a return form has just been chosen by an escaped entity.
C15_Witness ==
  /\ last.op = "choose_return_form"
  /\ last.ret
  /\ \E i \in Attempts :
       /\ escape_attempts[i].entity_id = last.entity
       /\ escape_attempts[i].status = "ESCAPED"
       /\ escape_attempts[i].post_escape_action = Some("return_with_new_form")

\* C16: check_escape_readiness(e) changes nothing; it returns ready exactly
\* when at least 7 Sacred fragments of the ledger have collected_by = e and
\* the string e is an element of coordinate_key_fragments; with fewer than 7
\* the reason is the shortfall, 7 minus the count, whatever the key check
\* says; the key-incomplete reason is given only when the fragments suffice
\* and the key check fails.
C16_ReadinessExactly ==
  [][ last'.op = "check_escape_readiness" =>
        LET e == last'.entity
            n == Cardinality({ i \in 1..Len(universe_state.source_energy_fragments) :
                                 /\ universe_state.source_energy_fragments[i].collected_by = Some(e)
                                 /\ universe_state.source_energy_fragments[i].level = "A_SACRED" })
            key == e \in Range(universe_state.coordinate_key_fragments)
        IN  /\ UNCHANGED core
            /\ last'.ret = (n >= 7 /\ key)
            /\ n < 7 => last'.msg = << "Missing:", 7 - n, "fragments" >>
            /\ last'.msg = << "Key coordinates incomplete" >> <=> (n >= 7 /\ ~key)
    ]_vars

\* C16 witness: the check has just reported one fragment missing for an
\* entity that is in the key list and holds six Sacred fragments and a
\* Legendary one.
C16_Witness ==
  /\ last.op = "check_escape_readiness"
  /\ ~last.ret
  /\ last.msg = << "Missing:", 1, "fragments" >>
  /\ last.entity \in Range(universe_state.coordinate_key_fragments)
  /\ Cardinality({ i \in 1..Len(universe_state.source_energy_fragments) :
                     universe_state.source_energy_fragments[i].collected_by
                       = Some(last.entity) }) = 7

\* C17: whenever the gateway is active, activated_by_entity and
\* activation_time are set; once activated_by_entity is set it never changes.
C17_ActivatorRecorded ==
  /\ [](terminal_gateway.is_active =>
          /\ terminal_gateway.activated_by_entity # None
          /\ terminal_gateway.activation_time # None)
  /\ [][ terminal_gateway.activated_by_entity # None =>
           terminal_gateway'.activated_by_entity = terminal_gateway.activated_by_entity
       ]_vars

\* C17 witness: the activator has escaped, the gateway still names it, and
\* another entity has just asked for activation.
C17_Witness ==
  /\ terminal_gateway.is_active
  /\ last.op = "activate_gateway"
  /\ terminal_gateway.activated_by_entity \notin { None, Some(last.entity) }
  /\ \E i \in Attempts :
       /\ Some(escape_attempts[i].entity_id) = terminal_gateway.activated_by_entity
       /\ escape_attempts[i].status = "ESCAPED"

\* C18: no stored attempt is ever in Failed, and none is ever in NotStarted.
C18_NoFailedNoNotStarted ==
  \A i \in Attempts : escape_attempts[i].status \notin { "FAILED", "NOT_STARTED" }

\* C18 witness: a second attempt has just been started and is stored in
\* FragmentsCollecting.
C18_Witness ==
  /\ last.op = "start_escape_attempt"
  /\ Len(escape_attempts) = 2
  /\ escape_attempts[2].status = "FRAGMENTS_COLLECTING"

\* The coordinator's operations.
CoordinatorOps ==
  { "start_escape_attempt", "collect_fragment", "discover_key_fragment",
    "decrypt_coordinate_key", "activate_gateway",
    "print_entity_to_real_universe", "complete_escape", "choose_return_form" }

\* C19: a coordinator operation never adds or removes a catalog fragment nor
\* changes a fragment's id, level, location or discovered_by, and changes
\* neither coordinate_key_fragments nor total_source_energy_allocated; only
\* collect_fragment writes collected_by and collection_timestamp, only
\* activate_gateway changes source_energy_consumed, only complete_escape
\* changes entities_escaped.
C19_LedgerFrame ==
  [][ last'.op \in CoordinatorOps =>
        LET old == universe_state.source_energy_fragments
            new == universe_state'.source_energy_fragments
        IN  \/ universe_state' = universe_state
            \/ /\ Len(new) = Len(old)
               /\ \A i \in 1..Len(old) :
                    /\ new[i].id = old[i].id
                    /\ new[i].level = old[i].level
                    /\ new[i].location_world = old[i].location_world
                    /\ new[i].location_coordinates = old[i].location_coordinates
                    /\ new[i].discovered_by = old[i].discovered_by
                    /\ (\/ new[i].collected_by # old[i].collected_by
                        \/ new[i].collection_timestamp # old[i].collection_timestamp)
                         => last'.op = "collect_fragment"
               /\ universe_state'.coordinate_key_fragments
                    = universe_state.coordinate_key_fragments
               /\ universe_state'.total_source_energy_allocated
                    = universe_state.total_source_energy_allocated
               /\ universe_state'.escape_keys_needed = universe_state.escape_keys_needed
               /\ universe_state'.source_energy_consumed
                    # universe_state.source_energy_consumed
                    => last'.op = "activate_gateway"
               /\ universe_state'.entities_escaped # universe_state.entities_escaped
                    => last'.op = "complete_escape"
    ]_vars

\* C19 witness: all three writers have acted: fragments are attributed,
\* energy has been consumed and an escape has just been recorded.
C19_Witness ==
  /\ last.op = "complete_escape"
  /\ universe_state.entities_escaped # << >>
  /\ universe_state.source_energy_consumed = 7
  /\ \E i \in 1..Len(universe_state.source_energy_fragments) :
       universe_state.source_energy_fragments[i].collected_by # None

\* C20: from_dict(to_dict(x)) = x, field for field, for every stored
\* EscapeAttempt, the TerminalGateway, every SourceEnergyFragment of the
\* ledger and the UniverseState itself, in every reachable state; the
\* enum-valued fields go through their string tags and unset optional fields
\* stay unset.
C20_RoundTrip ==
  /\ \A i \in Attempts :
       EscapeAttempt_from_dict(EscapeAttempt_to_dict(escape_attempts[i]))
         = escape_attempts[i]
  /\ TerminalGateway_from_dict(TerminalGateway_to_dict(terminal_gateway))
       = terminal_gateway
  /\ \A i \in 1..Len(universe_state.source_energy_fragments) :
       SourceEnergyFragment_from_dict(
         SourceEnergyFragment_to_dict(universe_state.source_energy_fragments[i]))
         = universe_state.source_energy_fragments[i]
  /\ UniverseState_from_dict(UniverseState_to_dict(universe_state)) = universe_state

\* C20 witness: an escaped attempt with a chosen form beside an attempt whose
\* optional fields are unset, the gateway active, fragments of both levels
\* collected and an escape recorded in the ledger.
C20_Witness ==
  /\ Len(escape_attempts) = 2
  /\ \E i \in Attempts :
       /\ escape_attempts[i].status = "ESCAPED"
       /\ escape_attempts[i].new_form_chosen # None
  /\ \E i \in Attempts :
       /\ escape_attempts[i].status = "FRAGMENTS_COLLECTING"
       /\ escape_attempts[i].final_coordinate_key = None
  /\ terminal_gateway.is_active
  /\ universe_state.entities_escaped # << >>
  /\ \E i, j \in 1..Len(universe_state.source_energy_fragments) :
       /\ universe_state.source_energy_fragments[i].level = "B_LEGENDARY"
       /\ universe_state.source_energy_fragments[i].collected_by # None
       /\ universe_state.source_energy_fragments[j].level = "A_SACRED"
       /\ universe_state.source_energy_fragments[j].collected_by = None

\* C21: the gateway is single-use: entities_in_queue and entities_escaped
\* never hold more than one entity, an entity is appended to either only
\* once over a whole run, that entity is activated_by_entity, and only its
\* attempts are ever in Printing or Escaped.
C21_SingleUse ==
  /\ [](/\ Len(terminal_gateway.entities_in_queue) <= 1
        /\ Len(universe_state.entities_escaped) <= 1
        /\ \A e \in Range(terminal_gateway.entities_in_queue)
                      \cup Range(universe_state.entities_escaped) :
             terminal_gateway.activated_by_entity = Some(e)
        /\ \A i \in Attempts :
             escape_attempts[i].status \in { "PRINTING", "ESCAPED" } =>
               terminal_gateway.activated_by_entity = Some(escape_attempts[i].entity_id))
  /\ [][ /\ Len(terminal_gateway'.entities_in_queue) > Len(terminal_gateway.entities_in_queue)
            => terminal_gateway.activated_by_entity = None
         /\ universe_state'.entities_escaped # universe_state.entities_escaped
            => universe_state.entities_escaped = << >>
       ]_vars

\* C21 witness: one entity has escaped, and another entity, whose attempt is
\* in GatewayOpening with seven fragments and energy left in the ledger, has
\* just been refused activation.
C21_Witness ==
  /\ last.op = "activate_gateway"
  /\ ~last.ret
  /\ universe_state.entities_escaped # << >>
  /\ last.entity \notin Range(universe_state.entities_escaped)
  /\ ReadyAttempts(last.entity) # {}
  /\ available_source_energy(universe_state) >= 7

\* C22: in every reachable state the success flag of an attempt is true
\* exactly when its status is Escaped.
C22_SuccessIffEscaped ==
  \A i \in Attempts :
    escape_attempts[i].success <=> escape_attempts[i].status = "ESCAPED"

\* C23: only the first attempt of an entity is ever modified: every later
\* attempt of the same entity is in FragmentsCollecting with empty collected
\* and discovered lists, no key and success false.
C23_LaterAttemptsUntouched ==
  \A i \in Attempts :
    i # AttemptOf(escape_attempts[i].entity_id) =>
      /\ escape_attempts[i].status = "FRAGMENTS_COLLECTING"
      /\ escape_attempts[i].collected_a_level_fragments = << >>
      /\ escape_attempts[i].discovered_key_fragments = << >>
      /\ escape_attempts[i].final_coordinate_key = None
      /\ ~escape_attempts[i].success

\* C23 witness: an entity with two attempts has escaped on the first and has
\* just chosen its return form.
C23_Witness ==
  /\ Len(escape_attempts) = 2
  /\ escape_attempts[1].entity_id = escape_attempts[2].entity_id
  /\ escape_attempts[1].success
  /\ last.op = "choose_return_form"
  /\ last.ret
  /\ last.entity = escape_attempts[2].entity_id

\* C24: every fragment id in an attempt's collected_a_level_fragments is the
\* id of a ledger fragment whose collected_by is the attempt's entity, so no
\* id is in the collected lists of attempts of two different entities.
C24_AttributionAgrees ==
  /\ \A i \in Attempts :
       \A f \in Range(escape_attempts[i].collected_a_level_fragments) :
         \E k \in 1..Len(universe_state.source_energy_fragments) :
           /\ universe_state.source_energy_fragments[k].id = f
           /\ universe_state.source_energy_fragments[k].collected_by
                = Some(escape_attempts[i].entity_id)
  /\ \A i, j \in Attempts :
       escape_attempts[i].entity_id # escape_attempts[j].entity_id =>
         Range(escape_attempts[i].collected_a_level_fragments)
           \cap Range(escape_attempts[j].collected_a_level_fragments) = {}

\* C25: an attempt in GatewayOpening, Printing or Escaped holds the master
\* formula in final_coordinate_key, one in Printing or Escaped holds at
\* least 7 collected ids; a key that is set is the master formula and stays
\* as it is, and collected ids are never removed, so the same is true of an
\* attempt that has been in those states before.
C25_KeyAndFragmentsKept ==
  /\ [](\A i \in Attempts :
          /\ escape_attempts[i].final_coordinate_key
               \in { None, Some(coordinate_key_formula) }
          /\ escape_attempts[i].status \in { "GATEWAY_OPENING", "PRINTING", "ESCAPED" } =>
               escape_attempts[i].final_coordinate_key = Some(coordinate_key_formula)
          /\ escape_attempts[i].status \in { "PRINTING", "ESCAPED" } =>
               Len(escape_attempts[i].collected_a_level_fragments) >= 7)
  /\ [][ \A i \in Attempts :
           /\ escape_attempts[i].final_coordinate_key # None =>
                escape_attempts'[i].final_coordinate_key
                  = escape_attempts[i].final_coordinate_key
           /\ Len(escape_attempts'[i].collected_a_level_fragments)
                >= Len(escape_attempts[i].collected_a_level_fragments)
           /\ SubSeq(escape_attempts'[i].collected_a_level_fragments, 1,
                     Len(escape_attempts[i].collected_a_level_fragments))
                = escape_attempts[i].collected_a_level_fragments
       ]_vars

\* C25 witness: an attempt that activated the gateway has fallen back to
\* KeyDecrypting and still holds the master formula and its fragments.
C25_Witness ==
  \E i \in Attempts :
    /\ escape_attempts[i].status = "KEY_DECRYPTING"
    /\ terminal_gateway.activated_by_entity = Some(escape_attempts[i].entity_id)
    /\ escape_attempts[i].gateway_activation_time # None
    /\ escape_attempts[i].final_coordinate_key = Some(coordinate_key_formula)
    /\ Len(escape_attempts[i].collected_a_level_fragments) >= 7

====
